---- MODULE Spec2Model ----
(***************************************************************************)
(* A model of ueditor/widgets.py: the language configuration built by      *)
(* get_language_config, the language-code conversion, the rendering of the *)
(* editor's init script and the UEditor widget's configuration merge.      *)
(*                                                                         *)
(* Strings that the code takes apart (language codes, display names,       *)
(* selectors) are sequences of one-character strings; dicts are functions  *)
(* from keys to values; mutable objects live in a heap and are named by    *)
(* their index in it.                                                      *)
(***************************************************************************)
EXTENDS Integers, Sequences, FiniteSets, TLC

VARIABLES
    files,              \* static files the finders can find (paths)
    enchant,            \* <<>> when pyenchant is not installed, else <<its languages>>
    USE_SPELLCHECKER,   \* qtue_settings.USE_SPELLCHECKER
    USE_FILEBROWSER,    \* qtue_settings.USE_FILEBROWSER
    DEBUG,              \* settings.DEBUG
    LANGUAGES,          \* settings.LANGUAGES: sequence of <<code, name>>
    LANGUAGE_CODE,      \* settings.LANGUAGE_CODE
    heap,               \* the dicts alive in the process, by reference
    log,                \* what the module's logger has emitted
    calls,              \* the get_language_config calls made so far
    arg,                \* convert_language_code: the argument
    out,                \* convert_language_code: the value returned
    CONFIG,             \* qtue_settings.CONFIG, the default editor configuration
    widgets,            \* the UEditor widgets constructed so far
    renders,            \* the UEditor.render calls made so far
    inits               \* the render_ueditor_init_js calls made so far

settingsVars == <<files, enchant, USE_SPELLCHECKER, USE_FILEBROWSER, DEBUG,
                  LANGUAGES, LANGUAGE_CODE, CONFIG>>
convertVars == <<arg, out>>
widgetVars == <<widgets, renders, inits>>

vars == <<files, enchant, USE_SPELLCHECKER, USE_FILEBROWSER, DEBUG, LANGUAGES,
          LANGUAGE_CODE, heap, log, calls, arg, out, CONFIG, widgets, renders,
          inits>>

-----------------------------------------------------------------------------
(* Bounds *)

MaxLangs == 2       \* longest settings.LANGUAGES
MaxCalls == 3       \* longest history of get_language_config calls
MaxLen == 3         \* longest generated argument of convert_language_code
MaxWidgets == 2     \* most UEditor widgets constructed
MaxRenders == 2     \* most calls of UEditor.render, and of render_ueditor_init_js

-----------------------------------------------------------------------------
(* Strings *)

Lower == <<"a","b","c","d","e","f","g","h","i","j","k","l","m",
           "n","o","p","q","r","s","t","u","v","w","x","y","z">>
Capital == <<"A","B","C","D","E","F","G","H","I","J","K","L","M",
             "N","O","P","Q","R","S","T","U","V","W","X","Y","Z">>

\* str.upper() on one character
UpperChar(c) ==
    IF \E i \in 1..Len(Lower) : Lower[i] = c
    THEN Capital[CHOOSE i \in 1..Len(Lower) : Lower[i] = c]
    ELSE c

\* str.upper()
Upper(s) == [i \in 1..Len(s) |-> UpperChar(s[i])]

\* s[:n]
Prefix(s, n) == SubSeq(s, 1, IF n < Len(s) THEN n ELSE Len(s))

\* str.split(sep) for a one-character separator: never an empty list
RECURSIVE Split(_, _)
Split(s, sep) ==
    IF \A i \in 1..Len(s) : s[i] # sep
    THEN <<s>>
    ELSE LET i == CHOOSE k \in 1..Len(s) :
                      s[k] = sep /\ \A j \in 1..(k-1) : s[j] # sep
         IN <<SubSeq(s, 1, i-1)>> \o Split(SubSeq(s, i+1, Len(s)), sep)

\* sep.join(parts)
RECURSIVE Join(_, _)
Join(parts, sep) ==
    IF Len(parts) = 0 THEN <<>>
    ELSE IF Len(parts) = 1 THEN parts[1]
    ELSE parts[1] \o sep \o Join(Tail(parts), sep)

\* the codes, names and literals that occur
en == <<"e","n">>
en_us == <<"e","n","-","u","s">>
de == <<"d","e">>
de_at == <<"d","e","-","a","t">>
de_de == <<"d","e","-","d","e">>
fr_fr == <<"f","r","-","f","r">>
pt_br == <<"p","t","-","b","r">>
ast == <<"a","s","t">>
zh_hans_cn == <<"z","h","-","h","a","n","s","-","c","n">>
fr == <<"f","r">>
de_DE == <<"d","e","_","D","E">>
de_AT == <<"d","e","_","A","T">>
pt_BR == <<"p","t","_","B","R">>
as == <<"a","s">>
rtl == <<"r","t","l">>
ltr == <<"l","t","r">>
German == <<"G","e","r">>
French == <<"F","r">>
Brazilian == <<"B","r","a">>

-----------------------------------------------------------------------------
(* Dicts and the heap *)

EmptyDict == [k \in {} |-> <<>>]

\* d[k] = v
DictSet(d, k, v) == [x \in (DOMAIN d) \cup {k} |-> IF x = k THEN v ELSE d[x]]

\* the value None
None == <<"None">>

\* d.get(k)
DictGet(d, k) == IF k \in DOMAIN d THEN d[k] ELSE None

\* d.get(k, default)
DictGetDefault(d, k, default) == IF k \in DOMAIN d THEN d[k] ELSE default

\* d.update(e)
DictUpdate(d, e) ==
    [x \in (DOMAIN d) \cup (DOMAIN e) |-> IF x \in DOMAIN e THEN e[x] ELSE d[x]]

-----------------------------------------------------------------------------
(* The logger *)

INFO == 20
ERROR == 40
LoggerLevel == 20

\* logger.info / logger.error: a record reaches the log at or above the level
Emit(level, template, value) ==
    IF level >= LoggerLevel
    THEN <<[level |-> level, template |-> template, value |-> value]>>
    ELSE <<>>

-----------------------------------------------------------------------------
(* convert_language_code *)

IndexError == <<"IndexError">>

convert_language_code_no_upper(django_lang) ==
    LET lang_and_country == Split(django_lang, "-")
    IN  IF Len(lang_and_country) >= 2
        THEN Join(<<lang_and_country[1], lang_and_country[2]>>, <<"_">>)
        ELSE lang_and_country[1]

convert_language_code(django_lang) ==
    LET lang_and_country == Split(django_lang, "-")
    IN  IF Len(lang_and_country) >= 2
        THEN Join(<<lang_and_country[1], Upper(lang_and_country[2])>>, <<"_">>)
        ELSE IF Len(lang_and_country) >= 1
             THEN lang_and_country[1]
             ELSE IndexError

-----------------------------------------------------------------------------
(* language_file_exists *)

\* os.path.join of relative components, kept as the list of components
TranslationPath(language_code) ==
    <<"UE", "lang", language_code, language_code \o <<".","j","s">> >>

language_file_exists(language_code) ==
    TranslationPath(language_code) \in files

-----------------------------------------------------------------------------
(* get_language_config *)

\* get_language() or settings.LANGUAGE_CODE: None and '' are both false
RequestedLanguage(current) ==
    IF current = None \/ current = <<>> THEN LANGUAGE_CODE ELSE current

\* lines 62-67: the code the editor is told to use, and the lookups made for it
ResolveLanguage_unchecked_truncation(current) ==
    LET exact == convert_language_code(RequestedLanguage(current))
    IN  IF language_file_exists(exact)
        THEN [language_code |-> exact, queries |-> <<exact>>]
        ELSE [language_code |-> Prefix(exact, 2), queries |-> <<exact>>]

ResolveLanguage_no_truncation(current) ==
    LET exact == convert_language_code(RequestedLanguage(current))
    IN  IF language_file_exists(exact)
        THEN [language_code |-> exact, queries |-> <<exact>>]
        ELSE [language_code |-> en, queries |-> <<exact>>]

ResolveLanguage(current) ==
    LET exact == convert_language_code(RequestedLanguage(current))
        short == Prefix(exact, 2)
    IN  IF language_file_exists(exact)
        THEN [language_code |-> exact, queries |-> <<exact>>]
        ELSE IF language_file_exists(short)
             THEN [language_code |-> short, queries |-> <<exact, short>>]
             ELSE [language_code |-> en, queries |-> <<exact, short>>]

\* line 68: config = {'language': language_code}, a new dict on every call
NewConfig_module_level(language_code) ==
    [ref  |-> 1,
     dict |-> IF Len(heap) >= 1
              THEN DictSet(heap[1], "language", language_code)
              ELSE DictSet(EmptyDict, "language", language_code)]

NewConfig(language_code) ==
    [ref  |-> Len(heap) + 1,
     dict |-> DictSet(EmptyDict, "language", language_code)]

\* lines 69-72
Directionality_swapped(config, bidi) ==
    DictSet(config, "directionality", IF bidi THEN ltr ELSE rtl)

Directionality(config, bidi) ==
    DictSet(config, "directionality", IF bidi THEN rtl ELSE ltr)

\* lines 85-93: one turn of the loop over settings.LANGUAGES
\* st = [config, lang_names, logged]
SpellStep_last_wins(st, pair, enchant_languages) ==
    LET exact == convert_language_code(pair[1])
        lang == IF exact \notin enchant_languages THEN Prefix(exact, 2) ELSE exact
    IN  IF lang \notin enchant_languages
        THEN [st EXCEPT !.logged =
                 @ \o Emit(ERROR, "Missing {0} spellchecker dictionary!", lang)]
        ELSE [st EXCEPT
                 !.config = DictSet(@, "spellchecker_language", lang),
                 !.lang_names = Append(@, pair[2] \o <<"=">> \o lang)]

SpellStep_keeps_missing(st, pair, enchant_languages) ==
    LET exact == convert_language_code(pair[1])
        lang == IF exact \notin enchant_languages THEN Prefix(exact, 2) ELSE exact
    IN  [st EXCEPT
            !.logged = IF lang \notin enchant_languages
                       THEN @ \o Emit(ERROR, "Missing {0} spellchecker dictionary!", lang)
                       ELSE @,
            !.config = IF DictGet(@, "spellchecker_language") = None
                       THEN DictSet(@, "spellchecker_language", lang)
                       ELSE @,
            !.lang_names = Append(@, pair[2] \o <<"=">> \o lang)]

SpellStep(st, pair, enchant_languages) ==
    LET exact == convert_language_code(pair[1])
        lang == IF exact \notin enchant_languages THEN Prefix(exact, 2) ELSE exact
    IN  IF lang \notin enchant_languages
        THEN [st EXCEPT !.logged =
                 @ \o Emit(ERROR, "Missing {0} spellchecker dictionary!", lang)]
        ELSE [st EXCEPT
                 !.config = IF DictGet(@, "spellchecker_language") = None
                            THEN DictSet(@, "spellchecker_language", lang)
                            ELSE @,
                 !.lang_names = Append(@, pair[2] \o <<"=">> \o lang)]

\* lines 83-84: for lang, name in settings.LANGUAGES
RECURSIVE SpellLoop(_, _, _)
SpellLoop(st, languages, enchant_languages) ==
    IF languages = <<>> THEN st
    ELSE SpellLoop(SpellStep(st, Head(languages), enchant_languages),
                   Tail(languages), enchant_languages)

\* lines 80-94: the spellchecker part, with the engine's languages at hand
SpellConfig(config, enchant_languages) ==
    LET start == [config |-> config, lang_names |-> <<>>,
                  logged |-> IF DEBUG
                             THEN Emit(INFO, "Enchant languages: {0}", enchant_languages)
                             ELSE <<>>]
        done == SpellLoop(start, LANGUAGES, enchant_languages)
    IN  [config |-> DictSet(done.config, "spellchecker_languages",
                            Join(done.lang_names, <<",">>)),
         logged |-> done.logged]

\* the reference that is no reference: None where a dict may be passed or returned
NoRef == 0

\* what a call of get_language_config comes to: the exception raised or the
\* dict returned (by reference and by value), what it logged, the translation
\* files it asked for and whether it tried to import the engine
get_language_config_imports_always(current, bidi) ==
    LET resolved == ResolveLanguage(current)
        fresh == NewConfig(resolved.language_code)
        config == Directionality(fresh.dict, bidi)
    IN  IF enchant = <<>>
        THEN [exc |-> "ImportError", ref |-> NoRef, config |-> None,
              logged |-> <<>>, queries |-> resolved.queries, probed |-> TRUE]
        ELSE IF USE_SPELLCHECKER
        THEN LET spell == SpellConfig(config, enchant[1])
             IN  [exc |-> "none", ref |-> fresh.ref, config |-> spell.config,
                  logged |-> spell.logged, queries |-> resolved.queries,
                  probed |-> TRUE]
        ELSE [exc |-> "none", ref |-> fresh.ref, config |-> config,
              logged |-> <<>>, queries |-> resolved.queries, probed |-> TRUE]

get_language_config(current, bidi) ==
    LET resolved == ResolveLanguage(current)
        fresh == NewConfig(resolved.language_code)
        config == Directionality(fresh.dict, bidi)
    IN  IF USE_SPELLCHECKER
        THEN IF enchant = <<>>
             THEN [exc |-> "ImportError", ref |-> NoRef, config |-> None,
                   logged |-> <<>>, queries |-> resolved.queries, probed |-> TRUE]
             ELSE LET spell == SpellConfig(config, enchant[1])
                  IN  [exc |-> "none", ref |-> fresh.ref, config |-> spell.config,
                       logged |-> spell.logged, queries |-> resolved.queries,
                       probed |-> TRUE]
        ELSE [exc |-> "none", ref |-> fresh.ref, config |-> config,
              logged |-> <<>>, queries |-> resolved.queries, probed |-> FALSE]

\* the heap after the dict d is stored at ref r (a new one, or one that exists)
HeapStore(h, r, d) ==
    IF r = Len(h) + 1 THEN Append(h, d) ELSE [h EXCEPT ![r] = d]

\* a call of get_language_config with get_language() = current and
\* get_language_bidi() = bidi
GetLanguageConfig(current, bidi) ==
    LET r == get_language_config(current, bidi)
    IN  /\ heap' = IF r.exc = "none" THEN HeapStore(heap, r.ref, r.config) ELSE heap
        /\ log' = log \o r.logged
        /\ calls' = Append(calls,
               [current   |-> current,
                requested |-> RequestedLanguage(current),
                bidi      |-> bidi,
                spell     |-> USE_SPELLCHECKER,
                languages |-> LANGUAGES,
                files     |-> files,
                enchant   |-> enchant,
                exc       |-> r.exc,
                ref       |-> r.ref,
                ret       |-> r.config,
                logged    |-> r.logged,
                queries   |-> r.queries,
                probed    |-> r.probed,
                heapBefore |-> Len(heap)])
        /\ UNCHANGED <<settingsVars, convertVars, widgetVars>>

-----------------------------------------------------------------------------
(* The environments and inputs explored *)

\* every sequence over S of length at most n
RECURSIVE SeqsUpTo(_, _)
SeqsUpTo(S, n) ==
    IF n = 0 THEN {<<>>}
    ELSE LET shorter == SeqsUpTo(S, n - 1)
         IN  shorter \cup {Append(s, x) : s \in shorter, x \in S}

TranslationPool ==
    {TranslationPath(de_DE), TranslationPath(de), TranslationPath(fr), TranslationPath(as)}
DictionaryPool == {pt_BR, de}
LanguagePairs == {<<de_at, German>>, <<fr_fr, French>>, <<pt_br, Brazilian>>}
Locales == {None, de_at, de_de, fr_fr, en, ast}

\* nothing constructed, called or rendered yet
InitIdle ==
    /\ CONFIG = EmptyDict
    /\ widgets = <<>>
    /\ renders = <<>>
    /\ inits = <<>>

InitRest ==
    /\ USE_FILEBROWSER = FALSE
    /\ InitIdle
    /\ heap = <<>>
    /\ log = <<>>
    /\ calls = <<>>
    /\ arg = None
    /\ out = None

\* one call of get_language_config in every environment
InitConfig ==
    /\ files \in SUBSET TranslationPool
    /\ enchant \in {<<>>} \cup {<<d>> : d \in SUBSET DictionaryPool}
    /\ USE_SPELLCHECKER \in BOOLEAN
    /\ DEBUG \in BOOLEAN
    /\ LANGUAGES \in SeqsUpTo(LanguagePairs, MaxLangs)
    /\ LANGUAGE_CODE \in {en_us, de_at}
    /\ InitRest

NextConfig ==
    \E current \in Locales, bidi \in BOOLEAN :
        /\ calls = <<>>
        /\ GetLanguageConfig(current, bidi)

SpecConfig == InitConfig /\ [][NextConfig]_vars

\* histories of calls, with the spellchecker setting overridden in between
HistoryLocales == {None, de_at}

InitHistory ==
    /\ files \in {{}, {TranslationPath(de)}}
    /\ enchant \in {<<>>, <<{de}>>}
    /\ USE_SPELLCHECKER \in BOOLEAN
    /\ DEBUG = FALSE
    /\ LANGUAGES \in {<<>>, <<<<fr_fr, French>>, <<de_at, German>>>>}
    /\ LANGUAGE_CODE = en_us
    /\ InitRest

\* qtue_settings.USE_SPELLCHECKER is read anew by every call: the setting may
\* differ from one call to the next
OverrideSettings(b) ==
    /\ USE_SPELLCHECKER # b
    /\ USE_SPELLCHECKER' = b
    /\ UNCHANGED <<files, enchant, USE_FILEBROWSER, DEBUG, LANGUAGES,
                   LANGUAGE_CODE, CONFIG, heap, log, calls, convertVars, widgetVars>>

NextHistory ==
    \/ \E current \in HistoryLocales, bidi \in BOOLEAN :
           /\ Len(calls) < MaxCalls
           /\ GetLanguageConfig(current, bidi)
    \/ \E b \in BOOLEAN :
           /\ Len(calls) < MaxCalls
           /\ OverrideSettings(b)

SpecHistory == InitHistory /\ [][NextHistory]_vars

\* convert_language_code applied to every short string and to the samples
Alphabet == {"p", "t", "b", "-"}
ConvertSamples == {en, pt_br, de_at, ast, zh_hans_cn}

InitConvert ==
    /\ arg \in SeqsUpTo(Alphabet, MaxLen) \cup ConvertSamples
    /\ out = None
    /\ files = {}
    /\ enchant = <<>>
    /\ USE_SPELLCHECKER = FALSE
    /\ USE_FILEBROWSER = FALSE
    /\ DEBUG = FALSE
    /\ LANGUAGES = <<>>
    /\ LANGUAGE_CODE = en_us
    /\ InitIdle
    /\ heap = <<>>
    /\ log = <<>>
    /\ calls = <<>>

ConvertLanguageCode ==
    /\ out = None
    /\ out' = convert_language_code(arg)
    /\ UNCHANGED <<settingsVars, widgetVars, heap, log, calls, arg>>

NextConvert == ConvertLanguageCode

SpecConvert == InitConvert /\ [][NextConvert]_vars

-----------------------------------------------------------------------------
(* Properties of get_language_config *)

Returned == {i \in DOMAIN calls : calls[i].exc = "none"}

\* C1: the 'language' of a returned configuration is a code whose translation
\* file exists, or it is "en"; a code known to be absent is never emitted.
C1_LanguageAvailableOrEn ==
    \A i \in Returned :
        LET language == heap[calls[i].ref]["language"]
        IN  language = en \/ TranslationPath(language) \in calls[i].files

C1_Witness ==
    \E i \in Returned :
        /\ calls[i].requested = de_at
        /\ TranslationPath(de) \in calls[i].files
        /\ heap[calls[i].ref]["language"] = de

\* C2: the language is found by a strict chain: the converted code if its file
\* exists; otherwise its first two characters if that file exists; otherwise
\* "en". The second lookup is made only after the first failed, there are at
\* most two lookups, and nothing else is tried.
C2_DegradeChain ==
    \A i \in Returned :
        LET c == calls[i]
            language == heap[c.ref]["language"]
            exact == convert_language_code(c.requested)
            short == SubSeq(exact, 1, IF Len(exact) < 2 THEN Len(exact) ELSE 2)
            has(code) == TranslationPath(code) \in c.files
        IN  /\ Len(c.queries) <= 2
            /\ has(exact) => language = exact /\ c.queries = <<exact>>
            /\ ~has(exact) /\ has(short) =>
                   language = short /\ c.queries = <<exact, short>>
            /\ ~has(exact) /\ ~has(short) =>
                   language = en /\ c.queries = <<exact, short>>
            /\ c.requested = de_at /\ c.files = {TranslationPath(de_DE)} =>
                   language = en
            /\ c.requested = fr_fr /\ c.files = {TranslationPath(fr)} =>
                   language = fr

C2_Witness ==
    \E i \in Returned :
        /\ calls[i].requested = de_at
        /\ calls[i].files = {TranslationPath(de_DE)}
        /\ calls[i].queries = <<de_AT, de>>
        /\ heap[calls[i].ref]["language"] = en

\* what the spellchecker keeps of one language: its converted code, else the
\* first two characters of it, else nothing
Survivor(pair, dictionaries) ==
    LET exact == convert_language_code(pair[1])
        short == SubSeq(exact, 1, IF Len(exact) < 2 THEN Len(exact) ELSE 2)
    IN  IF exact \in dictionaries THEN <<[name |-> pair[2], code |-> exact]>>
        ELSE IF short \in dictionaries THEN <<[name |-> pair[2], code |-> short]>>
        ELSE <<>>

RECURSIVE Survivors(_, _)
Survivors(languages, dictionaries) ==
    IF languages = <<>> THEN <<>>
    ELSE Survivor(Head(languages), dictionaries)
             \o Survivors(Tail(languages), dictionaries)

Spellchecked == {i \in Returned : calls[i].spell}

\* C4: with spellcheck on, 'spellchecker_languages' lists the surviving
\* languages as Name=code in the order of settings.LANGUAGES, and
\* 'spellchecker_language' is there exactly when a language survives and is
\* then the first survivor's code; with no survivor the list is the empty
\* string and the key is absent.
C4_OrderAndFirst ==
    \A i \in Spellchecked :
        LET c == calls[i]
            config == heap[c.ref]
            alive == Survivors(c.languages, c.enchant[1])
            entries == [k \in 1..Len(alive) |-> alive[k].name \o <<"=">> \o alive[k].code]
        IN  /\ "spellchecker_languages" \in DOMAIN config
            /\ config["spellchecker_languages"] = Join(entries, <<",">>)
            /\ "spellchecker_language" \in DOMAIN config <=> alive # <<>>
            /\ alive # <<>> => config["spellchecker_language"] = alive[1].code
            /\ alive = <<>> => config["spellchecker_languages"] = <<>>

C4_Witness ==
    \E i \in Spellchecked :
        /\ calls[i].languages = <<<<de_at, German>>, <<pt_br, Brazilian>>>>
        /\ calls[i].enchant = <<{pt_BR, de}>>
        /\ heap[calls[i].ref]["spellchecker_language"] = de
        /\ heap[calls[i].ref]["spellchecker_languages"]
               = German \o <<"=">> \o de \o <<",">> \o Brazilian \o <<"=">> \o pt_BR

\* the Name=code entries of a 'spellchecker_languages' string
EntriesOf(text) ==
    IF text = <<>> THEN <<>>
    ELSE LET items == Split(text, ",")
         IN  [k \in 1..Len(items) |-> Split(items[k], "=")]

\* the values of the "missing dictionary" records among log records
MissingLogged(records) ==
    LET missing == SelectSeq(records,
                       LAMBDA r : r.template = "Missing {0} spellchecker dictionary!")
    IN  [k \in 1..Len(missing) |-> missing[k].value]

\* C5: with spellcheck on, every language is treated on its own: converted
\* code, else its two-letter truncation, else skipped with exactly one log
\* record, and the loop goes on. Every code in the output is one the engine
\* has, and a language is logged as missing exactly when it is left out.
C5_PerLanguageSkip ==
    \A i \in Spellchecked :
        LET c == calls[i]
            config == heap[c.ref]
            dictionaries == c.enchant[1]
            entries == EntriesOf(config["spellchecker_languages"])
            missing == MissingLogged(c.logged)
            skipped == SelectSeq(c.languages,
                           LAMBDA pair : Survivor(pair, dictionaries) = <<>>)
        IN  /\ \A k \in 1..Len(entries) :
                   Len(entries[k]) = 2 /\ entries[k][2] \in dictionaries
            /\ "spellchecker_language" \in DOMAIN config =>
                   config["spellchecker_language"] \in dictionaries
            /\ Len(missing) = Len(skipped)
            /\ Len(entries) + Len(missing) = Len(c.languages)
            /\ \A k \in 1..Len(c.languages) :
                   LET pair == c.languages[k]
                       exact == convert_language_code(pair[1])
                       short == SubSeq(exact, 1, 2)
                   IN  /\ exact \in dictionaries =>
                              \E e \in 1..Len(entries) : entries[e] = <<pair[2], exact>>
                       /\ exact \notin dictionaries /\ short \in dictionaries =>
                              \E e \in 1..Len(entries) : entries[e] = <<pair[2], short>>
                       /\ exact \notin dictionaries /\ short \notin dictionaries =>
                              /\ \E m \in 1..Len(missing) : missing[m] = short
                              /\ \A e \in 1..Len(entries) : entries[e][1] # pair[2]

C5_Witness ==
    \E i \in Spellchecked :
        /\ calls[i].languages = <<<<fr_fr, French>>, <<de_at, German>>>>
        /\ calls[i].enchant = <<{de}>>
        /\ MissingLogged(calls[i].logged) = <<fr>>
        /\ heap[calls[i].ref]["spellchecker_languages"] = German \o <<"=">> \o de

\* C6: a call fails exactly when spellcheck is requested and the engine cannot
\* be imported; it then returns nothing. Without spellcheck the engine is not
\* even probed, and missing files or dictionaries never make a call fail.
C6_FatalOnlyWithoutEngine ==
    \A i \in DOMAIN calls :
        LET c == calls[i]
        IN  /\ c.exc # "none" <=> (c.spell /\ c.enchant = <<>>)
            /\ c.exc # "none" =>
                   c.exc = "ImportError" /\ c.ref = NoRef /\ c.ret = None
            /\ c.exc = "none" => c.ref \in DOMAIN heap
            /\ ~c.spell => ~c.probed

C6_Witness ==
    \E i \in DOMAIN calls :
        /\ calls[i].spell
        /\ calls[i].enchant = <<>>
        /\ calls[i].exc = "ImportError"
        /\ heap = <<>>

\* C7: a returned configuration always has 'directionality', "rtl" under a
\* bidi language and "ltr" otherwise, whatever the language, the translation
\* files and the spellcheck setting; without spellcheck the configuration has
\* the keys 'language' and 'directionality' and no other.
C7_Directionality ==
    \A i \in Returned :
        LET c == calls[i]
            config == heap[c.ref]
        IN  /\ "directionality" \in DOMAIN config
            /\ c.bidi => config["directionality"] = rtl
            /\ ~c.bidi => config["directionality"] = ltr
            /\ ~c.spell => DOMAIN config = {"language", "directionality"}

C7_Witness ==
    \E i \in Returned :
        /\ calls[i].bidi
        /\ ~calls[i].spell
        /\ heap[calls[i].ref] = [language |-> de, directionality |-> rtl]

\* the inputs of a call
InputsOf(c) == <<c.requested, c.bidi, c.languages, c.spell, c.files, c.enchant>>

\* C8: two calls with the same locale, direction, languages, spellcheck
\* setting and oracles give equal outcomes whatever was called before or in
\* between; every returned dict is a new object, and it still holds what was
\* returned after any later call.
C8_DeterministicAndFresh ==
    \A i, j \in DOMAIN calls :
        /\ InputsOf(calls[i]) = InputsOf(calls[j]) =>
               calls[i].exc = calls[j].exc /\ calls[i].ret = calls[j].ret
        /\ i \in Returned /\ j \in Returned /\ i # j => calls[i].ref # calls[j].ref
        /\ i \in Returned => heap[calls[i].ref] = calls[i].ret

C8_Witness ==
    /\ Len(calls) = 3
    /\ Returned = {1, 2, 3}
    /\ InputsOf(calls[1]) = InputsOf(calls[3])
    /\ calls[1].spell /\ ~calls[2].spell
    /\ calls[1].ret = calls[3].ret
    /\ calls[1].ret # calls[2].ret

-----------------------------------------------------------------------------
(* Properties of convert_language_code *)

\* the positions of the hyphens of a code
Hyphens(code) == {i \in 1..Len(code) : code[i] = "-"}

Least(S) == CHOOSE x \in S : \A y \in S : x <= y

\* C3: convert_language_code never fails; with a region subtag it gives
\* language + "_" + REGION, without one it gives the language as it is:
\* "pt-br" becomes "pt_BR" and "en" stays "en".
C3_ConvertLanguageCode ==
    out # None =>
        /\ out # IndexError
        /\ Hyphens(arg) = {} => out = arg
        /\ Hyphens(arg) # {} =>
               LET first == Least(Hyphens(arg))
                   later == {h \in Hyphens(arg) : h > first}
                   last == IF later = {} THEN Len(arg) ELSE Least(later) - 1
                   language == SubSeq(arg, 1, first - 1)
                   region == SubSeq(arg, first + 1, last)
               IN  /\ Len(out) = Len(language) + 1 + Len(region)
                   /\ SubSeq(out, 1, first - 1) = language
                   /\ out[first] = "_"
                   /\ \A k \in 1..Len(region) :
                          \/ /\ \E n \in 1..Len(Lower) : Lower[n] = region[k]
                             /\ \E n \in 1..Len(Lower) :
                                    Lower[n] = region[k] /\ out[first + k] = Capital[n]
                          \/ /\ \A n \in 1..Len(Lower) : Lower[n] # region[k]
                             /\ out[first + k] = region[k]
        /\ arg = pt_br => out = pt_BR
        /\ arg = en => out = en

C3_Witness == arg = pt_br /\ out = pt_BR

-----------------------------------------------------------------------------
(* render_ueditor_init_js *)

textarea == <<"t","e","x","t","a","r","e","a">>
div == <<"d","i","v">>
prefix == <<"_","_","p","r","e","f","i","x","_","_">>

\* sub in s, for strings
Contains(s, sub) ==
    \E i \in 0..(Len(s) - Len(sub)) : SubSeq(s, i + 1, i + Len(sub)) = sub

\* the function on the values of its arguments: the two dicts as it leaves
\* them and the context it renders the template with. json.dumps(d)[1:-1] is
\* kept as the set of the members it writes.
render_ueditor_init_js(qtue_config, callbacks, id_) ==
    LET callbacks1 ==
            IF USE_FILEBROWSER /\ "file_browser_callback" \notin DOMAIN callbacks
            THEN DictSet(callbacks, "file_browser_callback", "djangoFileBrowser")
            ELSE callbacks
        callbacks2 ==
            IF USE_SPELLCHECKER /\ "spellchecker_callback" \notin DOMAIN callbacks1
            THEN DictSet(callbacks1, "spellchecker_callback", "ueditor4_spellcheck")
            ELSE callbacks1
        config1 ==
            IF id_ # <<>>
            THEN DictSet(qtue_config, "selector",
                     DictGetDefault(qtue_config, "selector", textarea) \o <<"#">> \o id_)
            ELSE qtue_config
    IN  [qtue_config |-> config1,
         callbacks   |-> callbacks2,
         context     |-> [callbacks |-> callbacks2,
                          ueditor_config |-> {<<k, config1[k]>> : k \in DOMAIN config1},
                          is_admin_inline |-> Contains(id_, prefix)]]

\* a call with the dicts at cfg and cbs (two objects) and the element id id_
RenderInitJs(cfg, cbs, id_) ==
    LET r == render_ueditor_init_js(heap[cfg], heap[cbs], id_)
    IN  /\ heap' = [heap EXCEPT ![cfg] = r.qtue_config, ![cbs] = r.callbacks]
        /\ inits' = Append(inits,
               [qtue_config |-> cfg,
                callbacks   |-> cbs,
                id_         |-> id_,
                context     |-> r.context,
                config_before    |-> heap[cfg],
                callbacks_before |-> heap[cbs],
                config_after     |-> r.qtue_config,
                callbacks_after  |-> r.callbacks])
        /\ UNCHANGED <<settingsVars, convertVars, log, calls, widgets, renders>>

ElementIds == {<<>>, <<"i","d">>, <<"i","d">> \o prefix}

\* heap[1] is a configuration, heap[2] a callbacks dict
InitInitJs ==
    /\ heap \in {<<c, b>> :
           c \in {EmptyDict,
                  DictSet(EmptyDict, "selector", div),
                  DictSet(DictSet(EmptyDict, "language", de), "directionality", ltr)},
           b \in {EmptyDict, DictSet(EmptyDict, "file_browser_callback", "custom")}}
    /\ USE_FILEBROWSER \in BOOLEAN
    /\ USE_SPELLCHECKER \in BOOLEAN
    /\ files = {}
    /\ enchant = <<>>
    /\ DEBUG = FALSE
    /\ LANGUAGES = <<>>
    /\ LANGUAGE_CODE = en_us
    /\ InitIdle
    /\ log = <<>>
    /\ calls = <<>>
    /\ arg = None
    /\ out = None

NextInitJs ==
    \E id_ \in ElementIds :
        /\ Len(inits) < MaxRenders
        /\ RenderInitJs(1, 2, id_)

SpecInitJs == InitInitJs /\ [][NextInitJs]_vars

-----------------------------------------------------------------------------
(* UEditor *)

\* the truth value of an argument that is None or a dict
Truthy(x) == x # NoRef /\ DOMAIN heap[x] # {}

\* UEditor(attrs, ue_attrs, profile): ue_attrs and profile are None or the
\* caller's dicts, by reference (NoRef for None); attrs goes to Textarea untouched
NewUEditor(ue_attrs, profile) ==
    LET kept == IF Truthy(ue_attrs) THEN heap ELSE Append(heap, EmptyDict)
        ue_ref == IF Truthy(ue_attrs) THEN ue_attrs ELSE Len(heap) + 1
        default_profile == IF Truthy(profile) THEN heap[profile] ELSE CONFIG
        own == DictUpdate(EmptyDict, default_profile)
    IN  /\ heap' = Append(kept, own)
        /\ widgets' = Append(widgets,
               [ue_attrs |-> ue_ref,
                profile  |-> Len(kept) + 1,
                given_ue_attrs |-> ue_attrs,
                given_profile  |-> profile,
                given_profile_then |-> IF profile = NoRef THEN None ELSE heap[profile],
                CONFIG_then  |-> CONFIG,
                profile_then |-> own])
        /\ UNCHANGED <<settingsVars, convertVars, log, calls, renders, inits>>

\* smart_text(value) after None has become ''
SmartText(value) == IF value = None THEN <<>> ELSE value

\* widget.render(name, value): the configuration it builds and the html it returns
Render(w, name, value) ==
    LET own == heap[widgets[w].profile]
        qtue_settings == DictUpdate(own, heap[widgets[w].ue_attrs])
    IN  /\ renders' = Append(renders,
               [widget |-> w,
                qtue_settings |-> qtue_settings,
                ue_html |-> [name |-> name, value |-> SmartText(value)]])
        /\ UNCHANGED <<settingsVars, convertVars, heap, log, calls, widgets, inits>>

\* heap[1] is a profile of the caller, heap[2] are ue_attrs of the caller
InitWidget ==
    /\ CONFIG \in {[theme |-> "modern"], [theme |-> "modern", plugins |-> "link"]}
    /\ heap \in {<<p, a>> :
           p \in {EmptyDict, [theme |-> "simple"], [height |-> "300"]},
           a \in {EmptyDict, [theme |-> "dark"], [width |-> "80"]}}
    /\ widgets = <<>>
    /\ renders = <<>>
    /\ inits = <<>>
    /\ USE_FILEBROWSER = FALSE
    /\ USE_SPELLCHECKER = FALSE
    /\ files = {}
    /\ enchant = <<>>
    /\ DEBUG = FALSE
    /\ LANGUAGES = <<>>
    /\ LANGUAGE_CODE = en_us
    /\ log = <<>>
    /\ calls = <<>>
    /\ arg = None
    /\ out = None

NextWidget ==
    \/ \E ue_attrs \in {NoRef, 2}, profile \in {NoRef, 1} :
           /\ Len(widgets) < MaxWidgets
           /\ NewUEditor(ue_attrs, profile)
    \/ \E w \in DOMAIN widgets, value \in {None, <<"h","i">>} :
           /\ Len(renders) < MaxRenders
           /\ Render(w, "body", value)

SpecWidget == InitWidget /\ [][NextWidget]_vars

-----------------------------------------------------------------------------
(* Properties of the widget and of the init script *)

\* C9: a profile that is supplied replaces the default configuration, and
\* ue_attrs amend it: what render builds is the profile (a copy of CONFIG
\* when none is given) updated with ue_attrs; and CONFIG, the caller's profile
\* and the widget's own profile never change.
C9_ProfileReplacesAttrsAmend ==
    /\ \A k \in DOMAIN renders :
           LET w == widgets[renders[k].widget]
               base == IF w.given_profile # NoRef THEN heap[w.given_profile] ELSE CONFIG
               amend == IF w.given_ue_attrs # NoRef THEN heap[w.given_ue_attrs]
                        ELSE EmptyDict
           IN  renders[k].qtue_settings = DictUpdate(base, amend)
    /\ \A i \in DOMAIN widgets :
           /\ CONFIG = widgets[i].CONFIG_then
           /\ heap[widgets[i].profile] = widgets[i].profile_then
           /\ widgets[i].given_profile # NoRef =>
                  heap[widgets[i].given_profile] = widgets[i].given_profile_then

\* what does hold of UEditor: the same with "supplied" read as "supplied and
\* not empty"
WidgetMergeOfNonEmptyProfile ==
    /\ \A k \in DOMAIN renders :
           LET w == widgets[renders[k].widget]
               base == IF w.given_profile # NoRef /\ DOMAIN heap[w.given_profile] # {}
                       THEN heap[w.given_profile] ELSE CONFIG
               amend == IF w.given_ue_attrs # NoRef THEN heap[w.given_ue_attrs]
                        ELSE EmptyDict
           IN  renders[k].qtue_settings = DictUpdate(base, amend)
    /\ \A i \in DOMAIN widgets :
           /\ CONFIG = widgets[i].CONFIG_then
           /\ heap[widgets[i].profile] = widgets[i].profile_then
           /\ widgets[i].given_profile # NoRef =>
                  heap[widgets[i].given_profile] = widgets[i].given_profile_then

\* C10: render_ueditor_init_js leaves the configuration and the callbacks it
\* is given as they were, so rendering again with the same configuration
\* object and element id gives the same 'selector'.
C10_RenderLeavesConfigAlone ==
    /\ \A k \in DOMAIN inits :
           /\ inits[k].config_after = inits[k].config_before
           /\ inits[k].callbacks_after = inits[k].callbacks_before
    /\ \A j, k \in DOMAIN inits :
           inits[j].qtue_config = inits[k].qtue_config /\ inits[j].id_ = inits[k].id_ =>
               DictGet(inits[j].config_after, "selector")
                   = DictGet(inits[k].config_after, "selector")

\* the selector grows with every call made with an element id
SelectorGrows ==
    \A k \in DOMAIN inits :
        inits[k].id_ # <<>> =>
            inits[k].config_after["selector"]
                = DictGetDefault(inits[k].config_before, "selector", textarea)
                      \o <<"#">> \o inits[k].id_

====
